---- MODULE Spec2Model ----
(***************************************************************************)
(* A model of pooltool's ruleset framework (game/ruleset/datatypes.py) and *)
(* of its shot evolution engine (evolution.py).                            *)
(*                                                                         *)
(* Spec        the Ruleset state machine: one Ruleset instance, driven by  *)
(*             any sequence of its public operations.                      *)
(* OrderSpec   the generator of player_order, consumed between shots.      *)
(* EvolveSpec  the evolution engine: construction, simulate and the        *)
(*             event-based loop, one loop iteration per step.              *)
(* RestSpec    the engine run to rest, the loop weakly fair.               *)
(* CallSpec    the functions that read no state but their arguments,       *)
(*             called on their own on every input of small sets.           *)
(***************************************************************************)
EXTENDS Integers, Sequences, FiniteSets, TLC

(* ----------------------------- bounds ---------------------------------- *)

\* advance stops counting shots here (shot_number is unbounded in the code)
MaxShots == 2
\* the log stops growing here (Log.msgs is unbounded in the code)
MaxLog == 2

(* --------------------------- Python values ----------------------------- *)

None == "None"
\* the outcome of a call that raised instead of returning
Raise == "<raise>"

\* an Optional[List[str]]: None, or a list
NoList == [is_none |-> TRUE, ids |-> <<>>]
List(ids) == [is_none |-> FALSE, ids |-> ids]

SeqToSet(s) == {s[i] : i \in 1..Len(s)}

(* ------------------------------ inputs --------------------------------- *)

\* player_names arguments given to Ruleset.__init__
NameInputs ==
    { NoList, List(<<"A">>), List(<<"A", "B", "C">>), List(<<"A", "B", "A">>) }

\* the keys of shot.balls, in insertion order, of the System an operation is
\* handed
BallCollections == { <<>>, <<"8", "cue">>, <<"red", "yellow">> }

\* the names given to Player.create_players called on its own
CallNameInputs ==
    NameInputs \cup { List(<<>>), List(<<"B", "A">>), List(<<"A", "A">>) }

\* the ball collections given to cueball called on its own
CallBallCollections ==
    BallCollections
    \cup { <<"white", "cue">>, <<"yellow", "white">>, <<"red", "blue">>,
           <<"yellow", "8", "cue">> }

(* ------------------------------ state ---------------------------------- *)

VARIABLES
    \* Ruleset
    constructed,        \* Ruleset.__init__ returned normally
    players,            \* self.players: the roster's names, in order
    score,              \* self.score
    shot_number,        \* self.shot_number
    turn_number,        \* self.turn_number
    shot_constraints,   \* self.shot_constraints
    shot_info,          \* self.shot_info (unset until process_shot)
    active_idx,         \* self.active_idx
    log,                \* self.log.msgs
    log_update,         \* self.log.update
    \* the System handed to the Ruleset's operations
    cue_ball_id,        \* shot.cue.cue_ball_id
    \* the generator returned by the latest player_order() call
    gen,
    \* observation of the calls
    nsc_calls,          \* calls of next_shot_constraints so far
    over_seen,          \* process_shot has stored a ShotInfo with game_over
    last,               \* the latest method call: whether it returned normally
    \* EvolveShot
    algorithm,          \* the algorithm argument of the constructor call
    cls,                \* the class of the instance __new__ returned
    err,                \* the exception the constructor call raised
    initialised,        \* System / SystemHistory / ShotRender __init__ ran
    epc,                \* where the engine is: idle, loop (in
                        \* evolution_algorithm), post (after it, in simulate)
    t,                  \* self.t
    num_events,         \* self.num_events
    history,            \* self.events: the events recorded since the reset
    ended,              \* end_history calls since the reset
    t_final,            \* simulate's t_final
    ball_s,             \* ball.s of every ball
    ball_nte,           \* ball.next_transition_event of every ball
    energy,             \* collisions the system's energy still allows
    \* functions called on their own
    call                \* the latest such call: its arguments and its result

rvars == << constructed, players, score, shot_number, turn_number,
            shot_constraints, shot_info, active_idx, log, log_update,
            cue_ball_id, gen, nsc_calls, over_seen, last >>

evars == << algorithm, cls, err, initialised, epc, t, num_events, history,
            ended, t_final, ball_s, ball_nte, energy >>

vars == << rvars, evars, call >>

\* no function called on its own yet
NoCall == [fn |-> "none"]

(* ------------------------------ Player --------------------------------- *)

\* create_players counting the names, not the distinct names
create_players_Unchecked(names) ==
    LET ns == IF names.is_none THEN <<"Player 1", "Player 2">> ELSE names.ids
    IN  [ok |-> TRUE, players |-> ns]

\* Player.create_players: the roster; ok is false when the uniqueness
\* assertion fails
create_players(names) ==
    LET ns == IF names.is_none THEN <<"Player 1", "Player 2">> ELSE names.ids
    IN  IF Len(ns) = Cardinality(SeqToSet(ns))
        THEN [ok |-> TRUE, players |-> ns]
        ELSE [ok |-> FALSE, players |-> <<>>]

(* -------------------------------- Log ---------------------------------- *)

\* the entry Log.add_msg appends (the timer fields are wall-clock readings)
LogEntry(msg, sentiment, quiet) ==
    [msg |-> msg, quiet |-> quiet, sentiment |-> sentiment, broadcast |-> FALSE]

\* Log.add_msg with the default quiet=False
add_msg(msg, sentiment) ==
    /\ log' = Append(log, LogEntry(msg, sentiment, FALSE))
    /\ log_update' = TRUE

(* -------------------------- ShotConstraints ---------------------------- *)

MkConstraints(cueable, call_shot, ball_call, pocket_call) ==
    [ ball_in_hand |-> "none", movable |-> NoList, cueable |-> cueable,
      hittable |-> <<>>, call_shot |-> call_shot,
      ball_call |-> ball_call, pocket_call |-> pocket_call ]

\* what initial_shot_constraints / next_shot_constraints may return
ConstraintChoices ==
    { MkConstraints(c, FALSE, None, None) : c \in { NoList, List(<<"8">>) } }

\* how a call of next_shot_constraints may end: it raises, or returns sc
ConstraintOutcomes ==
    { [raised |-> TRUE, sc |-> MkConstraints(NoList, FALSE, None, None)] }
    \cup { [raised |-> FALSE, sc |-> c] : c \in ConstraintChoices }

\* cueball probing "white" before "cue"
cueball_WhiteFirst(sc, balls) ==
    IF sc.cueable.is_none
    THEN IF Len(balls) = 0
         THEN Raise
         ELSE IF "white" \in SeqToSet(balls) THEN "white"
         ELSE IF "cue" \in SeqToSet(balls) THEN "cue"
         ELSE IF "yellow" \in SeqToSet(balls) THEN "yellow"
         ELSE balls[1]
    ELSE IF Len(sc.cueable.ids) = 0 THEN Raise ELSE sc.cueable.ids[1]

\* ShotConstraints.cueball: the cue ball's id, or Raise
cueball(sc, balls) ==
    IF sc.cueable.is_none
    THEN IF Len(balls) = 0
         THEN Raise
         ELSE IF "cue" \in SeqToSet(balls) THEN "cue"
         ELSE IF "white" \in SeqToSet(balls) THEN "white"
         ELSE IF "yellow" \in SeqToSet(balls) THEN "yellow"
         ELSE balls[1]
    ELSE IF Len(sc.cueable.ids) = 0 THEN Raise ELSE sc.cueable.ids[1]

\* can_shoot not looking at pocket_call
can_shoot_BallOnly(sc) ==
    IF sc.call_shot /\ sc.ball_call # None THEN TRUE
    ELSE IF ~sc.call_shot THEN TRUE
    ELSE FALSE

\* ShotConstraints.can_shoot
can_shoot(sc) ==
    IF sc.call_shot /\ sc.ball_call # None /\ sc.pocket_call # None THEN TRUE
    ELSE IF ~sc.call_shot THEN TRUE
    ELSE FALSE

(* ----------------------------- ShotInfo -------------------------------- *)

NoShotInfo ==
    [ set |-> FALSE, player |-> None, legal |-> FALSE, turn_over |-> FALSE,
      game_over |-> FALSE, winner |-> None, score |-> <<>> ]

MkShotInfo(p, to, go, w) ==
    [ set |-> TRUE, player |-> p, legal |-> TRUE, turn_over |-> to,
      game_over |-> go, winner |-> w, score |-> <<p>> ]

\* what build_shot_info may return for a roster ps whose active player is p
ShotInfos(ps, p) ==
    { MkShotInfo(p, to, FALSE, None) : to \in BOOLEAN }
    \cup { MkShotInfo(p, to, TRUE, w) : to \in BOOLEAN, w \in {None, ps[1]} }

(* ------------------------------ Ruleset -------------------------------- *)

NoGen == [live |-> FALSE, i |-> 0, out |-> <<>>, t0 |-> 0, fixed |-> TRUE, done |-> FALSE]

Called(ok) == [ok |-> ok]

\* Ruleset.__init__
Ruleset__init__(names, isc) ==
    LET roster == create_players(names) IN
    /\ score = <<>>
    /\ shot_number = 0
    /\ turn_number = 0
    /\ shot_constraints = isc
    /\ shot_info = NoShotInfo
    /\ constructed = roster.ok
    /\ players = roster.players
    /\ active_idx = 0
    /\ log = <<>>
    /\ log_update = FALSE
    /\ cue_ball_id = "cue"
    /\ gen = NoGen
    /\ nsc_calls = 0
    /\ over_seen = FALSE
    /\ last = Called(roster.ok)

\* the value set_next_player assigns to active_idx
NextActiveIdx(tn, ps) == tn % Len(ps)

\* Ruleset.active_player
active_player == players[active_idx + 1]

\* Ruleset.last_player
last_player == players[((active_idx - 1) % Len(players)) + 1]

\* reading the active_player property: players[active_idx], no assignment
ActivePlayer ==
    /\ constructed
    /\ active_player \in SeqToSet(players)
    /\ UNCHANGED vars

\* reading the last_player property: no assignment
LastPlayer ==
    /\ constructed
    /\ last_player \in SeqToSet(players)
    /\ UNCHANGED vars

\* Ruleset.set_next_player
set_next_player ==
    /\ constructed
    /\ UNCHANGED << evars, call >>
    /\ active_idx' = NextActiveIdx(turn_number, players)
    /\ last' = Called(TRUE)
    /\ UNCHANGED << constructed, players, score, shot_number, turn_number,
                    shot_constraints, shot_info, log, log_update,
                    cue_ball_id, gen, nsc_calls, over_seen >>

\* mutant: the rotation ignores turn_number
PlayerAt_FromFirst(tn, i, ps) == ps[(i % Len(ps)) + 1]

\* the player the generator yields as its i-th item (i from 0)
PlayerAt(tn, i, ps) == ps[((tn + i) % Len(ps)) + 1]

\* Ruleset.player_order(): the call only creates the generator, whose body
\* has not started
player_order ==
    /\ constructed
    /\ UNCHANGED << evars, call >>
    /\ gen' = [NoGen EXCEPT !.live = TRUE]
    /\ last' = Called(TRUE)
    /\ UNCHANGED << constructed, players, score, shot_number, turn_number,
                    shot_constraints, shot_info, active_idx, log, log_update,
                    cue_ball_id, nsc_calls, over_seen >>

\* next() on the generator: one pass of the for loop, or its end; t0 and
\* fixed remember the turn_number the first item was produced at and whether
\* every item so far was produced at that turn_number
GenNext ==
    /\ constructed
    /\ UNCHANGED << evars, call >>
    /\ gen.live /\ ~gen.done
    /\ IF gen.i < Len(players)
       THEN /\ gen' = [gen EXCEPT !.i = gen.i + 1,
                                  !.out = Append(gen.out, PlayerAt(turn_number, gen.i, players)),
                                  !.t0 = IF gen.i = 0 THEN turn_number ELSE gen.t0,
                                  !.fixed = gen.i = 0 \/ (gen.fixed /\ turn_number = gen.t0)]
            /\ last' = Called(TRUE)
       ELSE /\ gen' = [gen EXCEPT !.done = TRUE]
            /\ last' = Called(FALSE)
    /\ UNCHANGED << constructed, players, score, shot_number, turn_number,
                    shot_constraints, shot_info, active_idx, log, log_update,
                    cue_ball_id, nsc_calls, over_seen >>

\* mutant: the winner is never named
GameOverMsg_Tie(winner) == "Game over! Tie game!"

\* the message advance logs when the game is over
GameOverMsg(winner) ==
    IF winner # None
    THEN "Game over! " \o winner \o " wins!"
    ELSE "Game over! Tie game!"

\* mutant: advance never takes the game-over branch
GameOver_Never(si) == FALSE

\* the test that opens advance
GameOver(si) == si.game_over

\* mutant: every shot ends the turn
NextTurnNumber_Always(tn, si) == tn + 1

\* mutant: a shot that ends the turn counts as two turns
NextTurnNumber_Twice(tn, si) == IF si.turn_over THEN tn + 2 ELSE tn

\* the turn_number advance leaves for a shot that did not end the game
NextTurnNumber(tn, si) == IF si.turn_over THEN tn + 1 ELSE tn

\* the body of Ruleset.advance, run with self.shot_info = si and shot.balls =
\* balls; the call of next_shot_constraints ends as nsc
AdvanceBody(si, balls, nsc) ==
    IF ~si.set
    THEN \* AttributeError on self.shot_info
         /\ last' = Called(FALSE)
         /\ UNCHANGED << turn_number, shot_number, shot_constraints, cue_ball_id,
                         active_idx, log, log_update, nsc_calls >>
    ELSE IF GameOver(si)
    THEN /\ Len(log) < MaxLog
         /\ add_msg(GameOverMsg(si.winner), "good")
         /\ last' = Called(TRUE)
         /\ UNCHANGED << turn_number, shot_number, shot_constraints, cue_ball_id,
                         active_idx, nsc_calls >>
    ELSE /\ shot_number < MaxShots
         /\ turn_number' = NextTurnNumber(turn_number, si)
         /\ shot_number' = shot_number + 1
         /\ nsc_calls' = nsc_calls + 1
         /\ UNCHANGED << log, log_update >>
         /\ IF nsc.raised
            THEN /\ last' = Called(FALSE)
                 /\ UNCHANGED << shot_constraints, cue_ball_id, active_idx >>
            ELSE /\ shot_constraints' = nsc.sc
                 /\ IF cueball(nsc.sc, balls) = Raise
                    THEN /\ last' = Called(FALSE)
                         /\ UNCHANGED << cue_ball_id, active_idx >>
                    ELSE /\ cue_ball_id' = cueball(nsc.sc, balls)
                         /\ active_idx' = NextActiveIdx(turn_number', players)
                         /\ last' = Called(TRUE)

\* the body of Ruleset.process_shot: build_shot_info returns si; what
\* respot_balls does to the shot is the rules' own business
ProcessBody(si) ==
    /\ shot_info' = si
    /\ score' = si.score
    /\ over_seen' = (over_seen \/ si.game_over)

\* Ruleset.process_shot
process_shot(si) ==
    /\ constructed
    /\ UNCHANGED << evars, call >>
    /\ ProcessBody(si)
    /\ last' = Called(TRUE)
    /\ UNCHANGED << constructed, players, shot_number, turn_number,
                    shot_constraints, active_idx, log, log_update,
                    cue_ball_id, gen, nsc_calls >>

\* Ruleset.advance
advance(balls, nsc) ==
    /\ constructed
    /\ UNCHANGED << evars, call >>
    /\ AdvanceBody(shot_info, balls, nsc)
    /\ UNCHANGED << constructed, players, score, shot_info, gen, over_seen >>

\* Ruleset.process_and_advance; balls are shot.balls as respot_balls left them
process_and_advance(si, balls, nsc) ==
    /\ constructed
    /\ UNCHANGED << evars, call >>
    /\ ProcessBody(si)
    /\ AdvanceBody(si, balls, nsc)
    /\ UNCHANGED << constructed, players, gen >>

(* ========================== EvolveShot ================================= *)

\* np.inf
Inf == 1000000

\* simulated time stops here: no event is offered later than this
MaxTime == 1
\* the most collisions one strike's energy allows
MaxEnergy == 1

\* float addition, in which inf absorbs
Add(a, b) == IF a = Inf \/ b = Inf THEN Inf ELSE a + b

\* the registry, in insertion order
avail_algorithms == << << "event-based", "EvolveShotEventBased" >> >>

\* list(avail_algorithms.keys())
AlgorithmKeys == [k \in 1..Len(avail_algorithms) |-> avail_algorithms[k][1]]

\* avail_algorithms[name]
AlgorithmClass(name) ==
    LET k == CHOOSE k \in 1..Len(avail_algorithms) : avail_algorithms[k][1] = name
    IN  avail_algorithms[k][2]

\* the algorithm arguments a constructor call may carry: none, or a name
AlgorithmArgs ==
    { [given |-> FALSE, name |-> None] }
    \cup { [given |-> TRUE, name |-> n] : n \in {"event-based", "discrete-time"} }

\* the keys of self.balls and of self.table.rails, in iteration order
BallIds == << "cue", "1" >>
RailIds == << "L" >>

Balls == SeqToSet(BallIds)

\* the motion states
stationary == "stationary"
sliding == "sliding"
rolling == "rolling"

\* what a collision-time routine may return: seconds, or inf
Durations == {0, 1, Inf}

\* the pairs (i, j) of ball positions with i < j
PairSet == { p \in (1..Len(BallIds)) \X (1..Len(BallIds)) : p[1] < p[2] }
\* the (ball, rail) positions
BallRailSet == (1..Len(BallIds)) \X (1..Len(RailIds))

(* ------------------------------ events --------------------------------- *)

Event(type, agents, time) == [event_type |-> type, agents |-> agents, time |-> time]

\* the placeholder agents
NullObject == "null"
DummyBall == "dummy"
NonObject == "non-object"
CueStick == "cue_stick"

null_event(time) == Event("NONE", << NullObject >>, time)
ball_ball_collision(ball1, ball2, time) == Event("BALL_BALL", << ball1, ball2 >>, time)
ball_linear_cushion_collision(ball, cushion, time) ==
    Event("BALL_LINEAR_CUSHION", << ball, cushion >>, time)
stick_ball_collision(stick, ball, time) == Event("STICK_BALL", << stick, ball >>, time)
rolling_stationary_transition(ball, time) == Event("ROLLING_STATIONARY", << ball >>, time)
sliding_rolling_transition(ball, time) == Event("SLIDING_ROLLING", << ball >>, time)

CollisionTypes == { "BALL_BALL", "BALL_LINEAR_CUSHION" }

(* ------------------------ the boundary: physics ------------------------ *)

\* the next_transition_event a ball in state s gets at time now: none at
\* rest, else its next change of state, d later
NextTransition(ball, s, now, d) ==
    IF s = stationary THEN null_event(Inf)
    ELSE IF s = sliding THEN sliding_rolling_transition(ball, now + d)
    ELSE rolling_stationary_transition(ball, now + d)

\* the motion state an event leaves its agent ball in
StateAfter(type) ==
    IF type = "SLIDING_ROLLING" THEN rolling
    ELSE IF type = "ROLLING_STATIONARY" THEN stationary
    ELSE sliding

\* the balls among an event's agents
AgentBalls(event) == SeqToSet(event.agents) \cap Balls

\* the answers get_ball_ball_collision_time may give in this state: a finite
\* time only for a pair that moves, while the energy allows a collision
BallBallAnswers(s, now, e) ==
    { f \in [PairSet -> Durations] :
        \A p \in PairSet :
            f[p] # Inf =>
                /\ ~(s[BallIds[p[1]]] = stationary /\ s[BallIds[p[2]]] = stationary)
                /\ e > 0
                /\ now + f[p] <= MaxTime }

\* the answers get_ball_rail_collision_time may give in this state
BallRailAnswers(s, now, e) ==
    { f \in [BallRailSet -> Durations] :
        \A p \in BallRailSet :
            f[p] # Inf =>
                /\ s[BallIds[p[1]]] # stationary
                /\ e > 0
                /\ now + f[p] <= MaxTime }

\* the times to the next transition the struck or collided balls may get
TransitionDelays(agents, now) ==
    { f \in [Balls -> {0, 1}] :
        \A b \in Balls : f[b] # 0 => (b \in agents /\ now + f[b] <= MaxTime) }

(* ------------------------- EvolveShotEventBased ------------------------ *)

\* the comparison of get_min_transition_event_time with < for <=
TransitionTakes_Strict(time, min_time) == time < min_time

\* the comparison of get_min_transition_event_time
TransitionTakes(time, min_time) == time <= min_time

\* get_min_transition_event_time: the loop over the balls ids, from the k-th
\* on
RECURSIVE MinTransitionFrom(_, _, _, _)
MinTransitionFrom(k, ids, nte, event) ==
    IF k > Len(ids) THEN event
    ELSE MinTransitionFrom(k + 1, ids, nte,
            IF TransitionTakes(nte[ids[k]].time, event.time)
            THEN nte[ids[k]] ELSE event)

get_min_transition_event_time(ids, nte) ==
    MinTransitionFrom(1, ids, nte, null_event(Inf))

\* the pairs get_min_ball_ball_event_time passes over, one of the two at
\* rest being enough
BallBallSkips_Either(s1, s2) == s1 = stationary \/ s2 = stationary

\* the pairs get_min_ball_ball_event_time passes over
BallBallSkips(s1, s2) == s1 = stationary /\ s2 = stationary

\* get_min_ball_ball_event_time: the nested loops over the balls ids,
\* flattened, from the k-th pass on; best holds dtau_E_min and
\* involved_balls, and asked the calls of get_ball_ball_collision_time made
RECURSIVE MinBallBallFrom(_, _, _, _, _)
MinBallBallFrom(k, ids, s, dtau, best) ==
    LET n == Len(ids)
        i == ((k - 1) \div n) + 1
        j == ((k - 1) % n) + 1
        asked == Append(best.asked, <<i, j>>)
    IN  IF k > n * n THEN best
        ELSE IF i >= j THEN MinBallBallFrom(k + 1, ids, s, dtau, best)
        ELSE IF BallBallSkips(s[ids[i]], s[ids[j]])
             THEN MinBallBallFrom(k + 1, ids, s, dtau, best)
        ELSE IF dtau[<<i, j>>] < best.dtau_E_min
             THEN MinBallBallFrom(k + 1, ids, s, dtau,
                    [dtau_E_min |-> dtau[<<i, j>>],
                     involved |-> << ids[i], ids[j] >>,
                     asked |-> asked])
        ELSE MinBallBallFrom(k + 1, ids, s, dtau, [best EXCEPT !.asked = asked])

\* the loops of get_min_ball_ball_event_time, run from their start
MinBallBall(ids, s, dtau) ==
    MinBallBallFrom(1, ids, s, dtau,
        [dtau_E_min |-> Inf, involved |-> << DummyBall, DummyBall >>, asked |-> <<>>])

\* the event time without the current time
BallBallTime_NoNow(now, dtau_E) == dtau_E

\* the time of the event get_min_ball_ball_event_time returns
BallBallTime(now, dtau_E) == Add(now, dtau_E)

get_min_ball_ball_event_time(ids, s, now, dtau) ==
    LET best == MinBallBall(ids, s, dtau)
    IN  ball_ball_collision(best.involved[1], best.involved[2],
                            BallBallTime(now, best.dtau_E_min))

\* get_min_ball_rail_event_time: the nested loops over the balls ids and the
\* rails, flattened
RECURSIVE MinBallRailFrom(_, _, _, _, _, _)
MinBallRailFrom(k, ids, rails, s, dtau, best) ==
    LET m == Len(rails)
        i == ((k - 1) \div m) + 1
        j == ((k - 1) % m) + 1
    IN  IF k > Len(ids) * m THEN best
        ELSE IF s[ids[i]] = stationary
             THEN MinBallRailFrom(k + 1, ids, rails, s, dtau, best)
        ELSE IF dtau[<<i, j>>] < best.dtau_E_min
             THEN MinBallRailFrom(k + 1, ids, rails, s, dtau,
                    [dtau_E_min |-> dtau[<<i, j>>],
                     involved |-> << ids[i], rails[j] >>])
        ELSE MinBallRailFrom(k + 1, ids, rails, s, dtau, best)

get_min_ball_rail_event_time(ids, rails, s, now, dtau) ==
    LET best == MinBallRailFrom(1, ids, rails, s, dtau,
                    [dtau_E_min |-> Inf, involved |-> << DummyBall, NonObject >>])
    IN  ball_linear_cushion_collision(best.involved[1], best.involved[2],
                                      Add(now, best.dtau_E_min))

\* get_next_event's chain of comparisons flipped: <= for <
SelectedSource_NonStrict(transition_event, ball_ball_event, ball_cushion_event) ==
    LET k1 == IF transition_event.time <= Inf THEN 1 ELSE 0
        t1 == IF k1 = 1 THEN transition_event.time ELSE Inf
        k2 == IF ball_ball_event.time <= t1 THEN 2 ELSE k1
        t2 == IF k2 = 2 THEN ball_ball_event.time ELSE t1
        k3 == IF ball_cushion_event.time <= t2 THEN 3 ELSE k2
    IN  k3

\* get_next_event's chain of comparisons: which event it ends up holding,
\* 0 its own NonEvent, 1 the transition, 2 the ball-ball, 3 the ball-cushion
SelectedSource(transition_event, ball_ball_event, ball_cushion_event) ==
    LET k1 == IF transition_event.time < Inf THEN 1 ELSE 0
        t1 == IF k1 = 1 THEN transition_event.time ELSE Inf
        k2 == IF ball_ball_event.time < t1 THEN 2 ELSE k1
        t2 == IF k2 = 2 THEN ball_ball_event.time ELSE t1
        k3 == IF ball_cushion_event.time < t2 THEN 3 ELSE k2
    IN  k3

\* get_next_event, given the three sources' events
get_next_event(transition_event, ball_ball_event, ball_cushion_event) ==
    LET k == SelectedSource(transition_event, ball_ball_event, ball_cushion_event)
    IN  IF k = 1 THEN transition_event
        ELSE IF k = 2 THEN ball_ball_event
        ELSE IF k = 3 THEN ball_cushion_event
        ELSE null_event(Inf)

\* the event get_next_event selects in the current state, the boundary
\* answering bb and br
NextEvent(bb, br) ==
    get_next_event(get_min_transition_event_time(BallIds, ball_nte),
                   get_min_ball_ball_event_time(BallIds, ball_s, t, bb),
                   get_min_ball_rail_event_time(BallIds, RailIds, ball_s, t, br))

(* ----------------------------- EvolveShot ------------------------------ *)

NoError == [type |-> "none", names |-> <<>>]
NoTFinal == [is_none |-> TRUE, v |-> 0]
TFinals == {NoTFinal} \cup { [is_none |-> FALSE, v |-> v] : v \in {0, 1} }

\* the test that opens __new__
Registered(name) == name \in SeqToSet(AlgorithmKeys)

\* whether the arguments __new__ accepted bind to __init__'s parameters:
\* __init__ has no algorithm parameter
InitAccepts(arg) == ~arg.given

\* the systems a caller may hand over: at rest, or the cue ball already struck
Systems ==
    { [s |-> [b \in Balls |-> stationary],
       nte |-> [b \in Balls |-> null_event(Inf)],
       e |-> 0] }
    \cup
    { [s |-> [b \in Balls |-> IF b = "cue" THEN sliding ELSE stationary],
       nte |-> [b \in Balls |->
                 IF b = "cue" THEN NextTransition(b, sliding, 0, d)
                 ELSE null_event(Inf)],
       e |-> e] : d \in {0, 1}, e \in 0..MaxEnergy }

\* the constructor call EvolveShot(cue, table, balls, algorithm=arg) on the
\* system sys: __new__, then __init__
EvolveShot__init__(arg, s0, nte0, e0) ==
    LET name == IF arg.given THEN arg.name ELSE "event-based"
        made == Registered(name)
        bound == made /\ InitAccepts(arg)
    IN  /\ algorithm = arg
        /\ cls = IF made THEN AlgorithmClass(name) ELSE None
        /\ err = IF ~made THEN [type |-> "ValueError", names |-> AlgorithmKeys]
                 ELSE IF ~bound THEN [type |-> "TypeError", names |-> <<>>]
                 ELSE NoError
        /\ initialised = bound
        /\ epc = IF bound THEN "idle" ELSE "failed"
        /\ t = 0
        /\ num_events = 0
        /\ history = <<>>
        /\ ended = 0
        /\ t_final = NoTFinal
        /\ ball_s = s0
        /\ ball_nte = nte0
        /\ energy = e0

\* no engine
EngineNone ==
    /\ algorithm = [given |-> FALSE, name |-> None]
    /\ cls = None
    /\ err = NoError
    /\ initialised = FALSE
    /\ epc = "none"
    /\ t = 0
    /\ num_events = 0
    /\ history = <<>>
    /\ ended = 0
    /\ t_final = NoTFinal
    /\ ball_s = [b \in Balls |-> stationary]
    /\ ball_nte = [b \in Balls |-> null_event(Inf)]
    /\ energy = 0

\* no Ruleset
RulesetNone ==
    /\ constructed = FALSE
    /\ players = <<>>
    /\ score = <<>>
    /\ shot_number = 0
    /\ turn_number = 0
    /\ shot_constraints = MkConstraints(NoList, FALSE, None, None)
    /\ shot_info = NoShotInfo
    /\ active_idx = 0
    /\ log = <<>>
    /\ log_update = FALSE
    /\ cue_ball_id = "cue"
    /\ gen = NoGen
    /\ nsc_calls = 0
    /\ over_seen = FALSE
    /\ last = Called(FALSE)

\* cue.strike(t): the cue ball starts to slide, with energy for e collisions
CueStrike(d, e) ==
    /\ ball_s' = [ball_s EXCEPT !["cue"] = sliding]
    /\ ball_nte' = [ball_nte EXCEPT !["cue"] = NextTransition("cue", sliding, t, d)]
    /\ energy' = e

\* simulate striking whatever it is told
Strikes_Always(strike) == TRUE

\* whether simulate strikes
Strikes(strike) == strike

\* update_history(event) on the history h: the event is recorded and the
\* clock is at its time
update_history(h, event) ==
    /\ t' = event.time
    /\ history' = Append(h, event)
    /\ num_events' = Len(h) + 1

\* end_history
end_history ==
    /\ ended' = ended + 1
    /\ UNCHANGED << t, history, num_events >>

\* simulate, up to its call of evolution_algorithm
Simulate(tf, strike) ==
    /\ epc = "idle"
    /\ ended' = 0                       \* reset_history, init_history
    /\ t_final' = tf
    /\ epc' = "loop"
    /\ IF Strikes(strike)
       THEN /\ \E d \in {0, 1}, e \in 0..MaxEnergy :
                 /\ t + d <= MaxTime
                 /\ CueStrike(d, e)
            /\ update_history(<<>>, stick_ball_collision(CueStick, "cue", t))
       ELSE /\ history' = <<>>
            /\ num_events' = 0
            /\ UNCHANGED << t, ball_s, ball_nte, energy >>
    /\ UNCHANGED << algorithm, cls, err, initialised >>
    /\ UNCHANGED << rvars, call >>

\* event.resolve(): the agents' new motion states and next transitions
Resolve(event, delay) ==
    LET agents == AgentBalls(event)
        s1 == [b \in Balls |->
                 IF b \in agents THEN StateAfter(event.event_type) ELSE ball_s[b]]
    IN  /\ ball_s' = s1
        /\ ball_nte' = [b \in Balls |->
                 IF b \in agents
                 THEN NextTransition(b, s1[b], event.time, delay[b])
                 ELSE ball_nte[b]]
        /\ energy' = IF event.event_type \in CollisionTypes THEN energy - 1 ELSE energy

\* the test with > for >=
Reached_Strict(tf, now) == ~tf.is_none /\ now > tf.v

\* the test that ends the loop after an event
Reached(tf, now) == ~tf.is_none /\ now >= tf.v

\* the loop's first test, with no event ever the last
NoEventLeft_Never(event) == FALSE

\* the loop's first test
NoEventLeft(event) == event.time = Inf

\* one pass of the loop of evolution_algorithm; event is the one value
\* get_next_event returned, bound once
LoopPass(bb, br) ==
    \E event \in { NextEvent(bb, br) } :
        IF NoEventLeft(event)
        THEN /\ end_history
             /\ epc' = "post"
             /\ UNCHANGED << ball_s, ball_nte, energy >>
        ELSE /\ \E delay \in TransitionDelays(AgentBalls(event), event.time) :
                  Resolve(event, delay)
             /\ update_history(history, event)
             /\ epc' = IF Reached(t_final, t') THEN "post" ELSE "loop"
             /\ UNCHANGED ended

evolution_algorithm ==
    /\ epc = "loop"
    /\ \E bb \in BallBallAnswers(ball_s, t, energy),
          br \in BallRailAnswers(ball_s, t, energy) :
         LoopPass(bb, br)
    /\ UNCHANGED << algorithm, cls, err, initialised, t_final >>
    /\ UNCHANGED << rvars, call >>

\* simulate, after evolution_algorithm: reports, continuize, vectorize
Finish ==
    /\ epc = "post"
    /\ epc' = "idle"
    /\ t_final' = NoTFinal
    /\ UNCHANGED << algorithm, cls, err, initialised, t, num_events, history,
                    ended, ball_s, ball_nte, energy >>
    /\ UNCHANGED << rvars, call >>

(* --------------------------- specifications ---------------------------- *)

Init ==
    /\ \E names \in NameInputs, isc \in ConstraintChoices :
         Ruleset__init__(names, isc)
    /\ EngineNone
    /\ call = NoCall

ProcessShot ==
    /\ constructed
    /\ \E si \in ShotInfos(players, active_player) : process_shot(si)

Advance ==
    \E balls \in BallCollections, nsc \in ConstraintOutcomes : advance(balls, nsc)

ProcessAndAdvance ==
    /\ constructed
    /\ \E si \in ShotInfos(players, active_player), balls \in BallCollections,
          nsc \in ConstraintOutcomes :
        process_and_advance(si, balls, nsc)

Next ==
    \/ ActivePlayer
    \/ LastPlayer
    \/ set_next_player
    \/ player_order
    \/ ProcessShot
    \/ Advance
    \/ ProcessAndAdvance

Spec == Init /\ [][Next]_vars

(* The generator of player_order, consumed item by item while shots that    *)
(* keep the game going are played in between.                              *)

OrderInit ==
    /\ \E names \in NameInputs :
         Ruleset__init__(names, MkConstraints(NoList, FALSE, None, None))
    /\ EngineNone
    /\ call = NoCall

\* a shot that does not end the game, processed and advanced past
PlayShot ==
    /\ constructed
    /\ \E to \in BOOLEAN :
         process_and_advance(MkShotInfo(active_player, to, FALSE, None),
                             <<"8", "cue">>,
                             [raised |-> FALSE, sc |-> shot_constraints])

OrderNext ==
    \/ player_order
    \/ GenNext
    \/ PlayShot

OrderSpec == OrderInit /\ [][OrderNext]_vars

(* The engine: constructed, then simulate called any number of times.      *)

EvolveInit ==
    /\ \E arg \in AlgorithmArgs, sys \in Systems :
         EvolveShot__init__(arg, sys.s, sys.nte, sys.e)
    /\ RulesetNone
    /\ call = NoCall

StartSimulate ==
    \E tf \in TFinals, strike \in BOOLEAN : Simulate(tf, strike)

EvolveNext ==
    \/ StartSimulate
    \/ evolution_algorithm
    \/ Finish

EvolveSpec == EvolveInit /\ [][EvolveNext]_vars

(* The engine run to rest: simulate called with no t_final. A call that was *)
(* entered goes on: the loop is straight-line code of the one call.         *)

RunToRest ==
    \E strike \in BOOLEAN : Simulate(NoTFinal, strike)

RestNext ==
    \/ RunToRest
    \/ evolution_algorithm
    \/ Finish

RestSpec == EvolveInit /\ [][RestNext]_vars /\ WF_vars(evolution_algorithm)

(* The functions of the ruleset framework and of the event selection that *)
(* read nothing but their arguments, called on their own.                  *)

\* the ShotConstraints such a call is made on
CallConstraints ==
    { MkConstraints(c, cs, bc, pc) :
        c \in { NoList, List(<<>>), List(<<"8">>), List(<<"white", "cue">>) },
        cs \in BOOLEAN, bc \in {None, "8"}, pc \in {None, "lc"} }

CreatePlayers ==
    /\ \E names \in CallNameInputs :
         call' = [fn |-> "create_players", names |-> names,
                  ret |-> create_players(names)]
    /\ UNCHANGED << rvars, evars >>

Cueball ==
    /\ \E sc \in CallConstraints, balls \in CallBallCollections :
         call' = [fn |-> "cueball", sc |-> sc, balls |-> balls,
                  ret |-> cueball(sc, balls)]
    /\ UNCHANGED << rvars, evars >>

CanShoot ==
    /\ \E sc \in CallConstraints :
         call' = [fn |-> "can_shoot", sc |-> sc, ret |-> can_shoot(sc)]
    /\ UNCHANGED << rvars, evars >>

CallNext ==
    \/ CreatePlayers
    \/ Cueball
    \/ CanShoot

CallSpec == Init /\ [][CallNext]_vars

(* The event sources and the selection of EvolveShotEventBased, called on  *)
(* their own on a system of three balls and two rails.                     *)

SelectBalls == << "cue", "1", "2" >>
SelectRails == << "L", "R" >>

\* the pending transitions of the balls ids: none, or one at time 0 or 1
SelectTransitions(ids) ==
    [ SeqToSet(ids) ->
        { null_event(Inf) } \cup { [event_type |-> "SLIDING_ROLLING", time |-> d] : d \in {0, 1} } ]

\* the ball's own event: the spec above, with the ball as agent
OwnTransition(ball, e) ==
    IF e.time = Inf THEN null_event(Inf) ELSE sliding_rolling_transition(ball, e.time)

\* the motion states of the balls ids
SelectStates(ids) == [ SeqToSet(ids) -> {stationary, rolling} ]

\* the answers of a collision-time routine asked about the pairs ps
SelectAnswers(ps) == [ ps -> Durations ]

SelectInit ==
    /\ RulesetNone
    /\ EngineNone
    /\ call = NoCall

GetMinTransition ==
    /\ \E f \in SelectTransitions(SelectBalls) :
         LET nte == [b \in SeqToSet(SelectBalls) |-> OwnTransition(b, f[b])]
         IN  call' = [fn |-> "get_min_transition_event_time", ids |-> SelectBalls,
                      nte |-> nte,
                      ret |-> get_min_transition_event_time(SelectBalls, nte)]
    /\ UNCHANGED << rvars, evars >>

GetMinBallBall ==
    /\ \E s \in SelectStates(SelectBalls), now \in {1},
          dtau \in SelectAnswers({ p \in (1..3) \X (1..3) : p[1] < p[2] }) :
         call' = [fn |-> "get_min_ball_ball_event_time", ids |-> SelectBalls,
                  s |-> s, now |-> now, dtau |-> dtau,
                  asked |-> MinBallBall(SelectBalls, s, dtau).asked,
                  ret |-> get_min_ball_ball_event_time(SelectBalls, s, now, dtau)]
    /\ UNCHANGED << rvars, evars >>

GetMinBallRail ==
    /\ \E s \in SelectStates(BallIds), now \in {1},
          dtau \in SelectAnswers((1..2) \X (1..2)) :
         call' = [fn |-> "get_min_ball_rail_event_time", ids |-> BallIds,
                  rails |-> SelectRails, s |-> s, now |-> now, dtau |-> dtau,
                  ret |-> get_min_ball_rail_event_time(BallIds, SelectRails, s, now, dtau)]
    /\ UNCHANGED << rvars, evars >>

GetNextEvent ==
    /\ \E d1 \in Durations, d2 \in Durations, d3 \in Durations :
         LET tr == OwnTransition("cue", [time |-> d1])
             bb == IF d2 = Inf THEN ball_ball_collision(DummyBall, DummyBall, Inf)
                   ELSE ball_ball_collision("cue", "1", d2)
             br == IF d3 = Inf THEN ball_linear_cushion_collision(DummyBall, NonObject, Inf)
                   ELSE ball_linear_cushion_collision("cue", "L", d3)
         IN  call' = [fn |-> "get_next_event", tr |-> tr, bb |-> bb, br |-> br,
                      ret |-> get_next_event(tr, bb, br)]
    /\ UNCHANGED << rvars, evars >>

SelectNext ==
    \/ GetMinTransition
    \/ GetMinBallBall
    \/ GetMinBallRail
    \/ GetNextEvent

SelectSpec == SelectInit /\ [][SelectNext]_vars

(* ------------------------- Ruleset: claims ----------------------------- *)

ActiveIdxOk ==
    /\ active_idx = turn_number % Len(players)
    /\ 0 <= active_idx
    /\ active_idx < Len(players)

Progress == << turn_number, shot_number, active_idx, shot_constraints >>

\* C1 as stated: after construction and after every successfully completed
\* call of process_shot, advance, process_and_advance or set_next_player,
\* active_idx = turn_number mod n and 0 <= active_idx < n.
C1_ActiveIdxAfterEveryCall ==
    /\ constructed => ActiveIdxOk
    /\ [][ (last'.ok /\ ~ActiveIdxOk')
           => ~(ProcessShot \/ Advance \/ ProcessAndAdvance \/ set_next_player) ]_vars

\* C2 as stated: once process_shot has stored a ShotInfo with game_over =
\* true, every later advance or process_and_advance leaves turn_number,
\* shot_number, active_idx and shot_constraints unchanged.
C2_GameOverLatched ==
    [][ (over_seen /\ Progress' # Progress) => ~(Advance \/ ProcessAndAdvance) ]_vars

\* C2 as amended: advance leaves turn_number, shot_number, active_idx and
\* shot_constraints unchanged while the stored ShotInfo has game_over = true,
\* and process_and_advance does when the ShotInfo it stores has; a
\* process_and_advance that stores a ShotInfo with game_over = false counts
\* the shot, whatever was stored before.
C2_GameOverWhileStored ==
    [][ /\ (shot_info.set /\ shot_info.game_over /\ Progress' # Progress)
             => ~Advance
        /\ (shot_info'.game_over /\ Progress' # Progress)
             => ~ProcessAndAdvance
        /\ (~shot_info'.game_over /\ shot_number' # shot_number + 1)
             => ~ProcessAndAdvance ]_vars

\* a game-over ShotInfo is stored and advance has logged it twice
C2_Witness ==
    /\ shot_info.set /\ shot_info.game_over
    /\ Len(log) = 2
    /\ shot_number > 0

\* C3: with a stored ShotInfo that has game_over = true, one advance leaves
\* turn_number, shot_number, active_idx and shot_constraints unchanged, calls
\* no next_shot_constraints, assigns no cue-ball id and appends exactly one
\* log entry with sentiment "good": "Game over! <winner> wins!" with a
\* winner, the tie message without.
C3_GameOverAdvance ==
    [][ (shot_info.set /\ shot_info.game_over /\ Advance) =>
          /\ UNCHANGED Progress
          /\ nsc_calls' = nsc_calls
          /\ cue_ball_id' = cue_ball_id
          /\ Len(log') = Len(log) + 1
          /\ SubSeq(log', 1, Len(log)) = log
          /\ log'[Len(log')].sentiment = "good"
          /\ log'[Len(log')].msg =
                IF shot_info.winner = None
                THEN "Game over! Tie game!"
                ELSE "Game over! " \o shot_info.winner \o " wins!" ]_vars

\* advance has logged a tie and then a win
C3_Witness ==
    /\ Len(log) = 2
    /\ log[1].msg = "Game over! Tie game!"
    /\ log[2].msg \in {"Game over! A wins!", "Game over! Player 1 wins!"}

\* C4: turn_number and shot_number never decrease and change only inside
\* advance; an advance whose ShotInfo has game_over = false adds 1 to
\* shot_number and adds 1 to turn_number exactly if turn_over; process_shot,
\* set_next_player, player_order, active_player and last_player leave both
\* unchanged.
C4_Counters ==
    [][ /\ turn_number' >= turn_number
        /\ shot_number' >= shot_number
        /\ \/ UNCHANGED << turn_number, shot_number >>
           \/ Advance
           \/ ProcessAndAdvance
        /\ \/ /\ shot_number' = shot_number + 1
              /\ turn_number' = turn_number + (IF shot_info.turn_over THEN 1 ELSE 0)
           \/ ~(shot_info.set /\ ~shot_info.game_over)
           \/ ~Advance
        /\ \/ /\ shot_number' = shot_number + 1
              /\ turn_number' = turn_number + (IF shot_info'.turn_over THEN 1 ELSE 0)
           \/ shot_info'.game_over
           \/ ~ProcessAndAdvance
        /\ \/ UNCHANGED << turn_number, shot_number >>
           \/ ~(ProcessShot \/ set_next_player \/ player_order \/ ActivePlayer \/ LastPlayer)
      ]_vars

\* two shots were counted, one of which ended the turn
C4_Witness == shot_number = 2 /\ turn_number = 1

\* the Ruleset's own fields
RulesetState ==
    << players, score, shot_number, turn_number, shot_constraints, shot_info,
       active_idx, log, log_update >>

\* C10: with turn_number fixed at t while the sequence is consumed,
\* player_order() yields exactly n players, the i-th being
\* roster[(t + i) mod n], every player exactly once, and then stops; each
\* call starts a new sequence and changes no Ruleset state.
C10_PlayerOrder ==
    /\ [](gen.done => gen.i = Len(players))
    /\ []((gen.live /\ gen.fixed) =>
            /\ Len(gen.out) = gen.i
            /\ gen.i <= Len(players)
            /\ \A k \in 1..Len(gen.out) :
                 gen.out[k] = players[((gen.t0 + (k - 1)) % Len(players)) + 1]
            /\ gen.done =>
                 /\ Len(gen.out) = Len(players)
                 /\ SeqToSet(gen.out) = SeqToSet(players))
    /\ [][ /\ player_order => (gen'.i = 0 /\ gen'.out = <<>> /\ ~gen'.done)
           /\ (player_order \/ GenNext) => UNCHANGED RulesetState ]_vars

\* the sequence of a call made at turn_number 2 on a roster of three has
\* been consumed to its end
C10_Witness ==
    /\ gen.done /\ gen.fixed
    /\ players = <<"A", "B", "C">>
    /\ gen.t0 = 2
    /\ gen.out = <<"C", "A", "B">>

(* ------------------------- EvolveShot: claims -------------------------- *)

\* the three candidate events of a pass, the boundary answering bb and br
Candidates(bb, br) ==
    << get_min_transition_event_time(BallIds, ball_nte),
       get_min_ball_ball_event_time(BallIds, ball_s, t, bb),
       get_min_ball_rail_event_time(BallIds, RailIds, ball_s, t, br) >>

Min2(a, b) == IF a <= b THEN a ELSE b

AllAtRest == \A b \in Balls : ball_s[b] = stationary

\* C5: the recorded event times never decrease, the clock is at the last
\* recorded time, every event a pass can select has a time >= the clock (so
\* the duration handed to evolve is >= 0), and the clock never moves back.
C5_TimesNonDecreasing ==
    /\ [](\A i \in 1..(Len(history) - 1) : history[i].time <= history[i + 1].time)
    /\ [](history # <<>> => history[Len(history)].time = t)
    /\ [](epc = "loop" =>
            \A bb \in BallBallAnswers(ball_s, t, energy),
               br \in BallRailAnswers(ball_s, t, energy) :
                 NextEvent(bb, br).time - t >= 0)
    /\ [][t' >= t]_vars

\* a run that recorded a strike, a collision at the same time and a later
\* transition
C5_Witness ==
    /\ Len(history) >= 3
    /\ history[1].event_type = "STICK_BALL"
    /\ history[2].event_type \in CollisionTypes
    /\ history[2].time = history[1].time
    /\ history[Len(history)].time > history[1].time

\* C6: whatever the three sources offer, get_next_event returns an event
\* whose time is the least of the three times, and it returns its own
\* NonEvent exactly when all three times are inf.
C6_SelectsMinimum ==
    epc = "loop" =>
        \A bb \in BallBallAnswers(ball_s, t, energy),
           br \in BallRailAnswers(ball_s, t, energy) :
            LET c == Candidates(bb, br)
                k == SelectedSource(c[1], c[2], c[3])
                e == get_next_event(c[1], c[2], c[3])
            IN  /\ e.time = Min2(c[1].time, Min2(c[2].time, c[3].time))
                /\ (k = 0) <=> (c[1].time = Inf /\ c[2].time = Inf /\ c[3].time = Inf)
                /\ (k = 0) => e = null_event(Inf)
                /\ (k # 0) => e = c[k]

\* a pass after the strike in which all three sources offer a finite time
\* and the ball-ball event, earlier than the transition, is selected
C6_Witness ==
    /\ epc = "loop"
    /\ history # <<>>
    /\ history[Len(history)].event_type = "STICK_BALL"
    /\ \E bb \in BallBallAnswers(ball_s, t, energy),
          br \in BallRailAnswers(ball_s, t, energy) :
            LET c == Candidates(bb, br)
            IN  /\ c[1].time < Inf /\ c[2].time < Inf /\ c[3].time < Inf
                /\ c[2].time < c[1].time
                /\ SelectedSource(c[1], c[2], c[3]) = 2

\* C7: with no t_final, a loop that was entered ends: it comes to the pass
\* that finds no finite event, marks the history ended once and stops; the
\* history is never marked ended twice, and a pass made with every ball at
\* rest is that last pass.
C7_EndsOnce ==
    /\ [](ended <= 1)
    /\ ((epc = "loop" /\ t_final.is_none) ~> (epc = "post" /\ ended = 1 /\ AllAtRest))
    /\ [][(epc = "loop" /\ AllAtRest) =>
            (epc' = "post" /\ ended' = ended + 1 /\ history' = history)]_vars

\* a run with no t_final that resolved a collision and the transitions after
\* it, and ended
C7_Witness ==
    /\ epc = "post"
    /\ t_final.is_none
    /\ ended = 1
    /\ AllAtRest
    /\ Len(history) >= 4
    /\ \E i \in 1..Len(history) : history[i].event_type = "BALL_BALL"

\* C8: simulate leaves a fresh history; with strike it holds exactly the
\* STICK_BALL event at the starting time, before any pass of the loop; without
\* strike it is empty; and the loop never records a STICK_BALL event.
C8_StrikeRecordedFirst ==
    /\ [][\A tf \in TFinals, strike \in BOOLEAN :
            (epc = "idle" /\ epc' = "loop" /\ Simulate(tf, strike)) =>
                /\ ended' = 0
                /\ t' = t
                /\ IF strike
                   THEN history' = << stick_ball_collision(CueStick, "cue", t) >>
                   ELSE history' = <<>>]_vars
    /\ [](\A i \in 2..Len(history) : history[i].event_type # "STICK_BALL")
    /\ [][epc = "loop" =>
            (history' = history \/
             (\E e \in {history'[Len(history')]} :
                 e.event_type # "STICK_BALL" /\ history' = Append(history, e)))]_vars

\* a second simulate call: the strike at time 1 is all the history holds,
\* the events of the run that brought the clock to 1 are gone
C8_Witness ==
    /\ epc = "loop"
    /\ t = 1
    /\ history = << stick_ball_collision(CueStick, "cue", 1) >>

\* C9: construction fails exactly when the name is not registered, then
\* with the error that lists the registered names and nothing initialised;
\* with "event-based", given or by default, it yields an initialised
\* EvolveShotEventBased.
C9_Construction ==
    epc # "none" =>
        LET name == IF algorithm.given THEN algorithm.name ELSE "event-based"
        IN  /\ (err # NoError) <=> ~Registered(name)
            /\ ~Registered(name) =>
                    /\ err = [type |-> "ValueError", names |-> AlgorithmKeys]
                    /\ ~initialised
            /\ name = "event-based" =>
                    /\ initialised
                    /\ cls = "EvolveShotEventBased"

(* ------------------- ShotConstraints, Player: claims ------------------- *)

\* the ids cueball probes for, in order
Probes == << "cue", "white", "yellow" >>

\* C11: cueball returns the first entry of an explicit cueable list; with
\* none and a non-empty collection, the first of "cue", "white", "yellow"
\* that is a key, else the collection's first key; with none and an empty
\* collection it fails.
C11_Cueball ==
    call.fn = "cueball" =>
        LET cueable == call.sc.cueable
            keys == SeqToSet(call.balls)
            found == { i \in 1..Len(Probes) : Probes[i] \in keys }
        IN  /\ (~cueable.is_none /\ Len(cueable.ids) > 0) => call.ret = cueable.ids[1]
            /\ (cueable.is_none /\ Len(call.balls) > 0 /\ found # {}) =>
                    \E i \in found :
                        /\ call.ret = Probes[i]
                        /\ \A j \in found : i <= j
            /\ (cueable.is_none /\ Len(call.balls) > 0 /\ found = {}) =>
                    call.ret = call.balls[1]
            /\ (cueable.is_none /\ Len(call.balls) = 0) => call.ret = Raise

\* the third probe answers: no "cue", no "white", "yellow" not the first key
C11_Witness ==
    /\ call.fn = "cueball"
    /\ call.sc.cueable.is_none
    /\ call.balls = <<"red", "yellow">>
    /\ call.ret = "yellow"

\* C12: can_shoot is false exactly when call_shot is true and ball_call or
\* pocket_call is unset.
C12_CanShoot ==
    call.fn = "can_shoot" =>
        (call.ret = FALSE) <=>
            (call.sc.call_shot /\ (call.sc.ball_call = None \/ call.sc.pocket_call = None))

\* a called shot with only the ball called: not yet playable
C12_Witness ==
    /\ call.fn = "can_shoot"
    /\ call.sc.call_shot
    /\ call.sc.ball_call # None
    /\ call.sc.pocket_call = None
    /\ call.ret = FALSE

\* C13: create_players fails exactly when two of the names are equal; else
\* it returns one player per name, in order; with no names, "Player 1" and
\* "Player 2". A Ruleset that was constructed has pairwise distinct names.
C13_CreatePlayers ==
    /\ call.fn = "create_players" =>
         LET given == IF call.names.is_none
                      THEN <<"Player 1", "Player 2">> ELSE call.names.ids
             twice == \E i, j \in 1..Len(given) : i # j /\ given[i] = given[j]
         IN  /\ ~call.ret.ok <=> twice
             /\ call.ret.ok => call.ret.players = given
    /\ constructed =>
         \A i, j \in 1..Len(players) : i # j => players[i] # players[j]
    /\ (~constructed /\ epc = "none") => ~last.ok

\* the call that fails, made beside a Ruleset whose own construction
\* succeeded
C13_Witness ==
    /\ call.fn = "create_players"
    /\ call.names = List(<<"A", "B", "A">>)
    /\ ~call.ret.ok
    /\ constructed
    /\ players = <<"A", "B", "C">>

(* --------------------- EvolveShot: claims, continued ------------------- *)

\* the recorded events the loop resolved: all but simulate's strike
LoopEvents == { i \in 1..Len(history) : history[i].event_type # "STICK_BALL" }

C15_EndedBeforePost ==
    epc = "post" => ended = 1

(* ---------------------- event selection: claims ------------------------ *)

\* the least of a non-empty set of times
MinOf(S) == CHOOSE m \in S : \A x \in S : m <= x

\* (i, j) comes before (k, l) in the order the nested loops visit them
Before(p, q) == p[1] < q[1] \/ (p[1] = q[1] /\ p[2] < q[2])

\* the pairs of a ball-ball call in which a ball is not at rest
Eligible ==
    { p \in DOMAIN call.dtau :
        call.s[call.ids[p[1]]] # stationary \/ call.s[call.ids[p[2]]] # stationary }

\* the (ball, rail) pairs of a ball-rail call whose ball is not at rest
EligibleRail == { p \in DOMAIN call.dtau : call.s[call.ids[p[1]]] # stationary }

\* C16: at equal least finite time a transition beats a ball-ball event and
\* a ball-ball event beats a ball-rail event; among the balls' transitions
\* the last ball with the least time wins; among the ball-ball pairs and
\* among the ball-rail pairs the first with the least time wins.
C16_TieBreaking ==
    /\ call.fn = "get_next_event" =>
         LET m == MinOf({call.tr.time, call.bb.time, call.br.time})
         IN  m < Inf =>
                call.ret = IF call.tr.time = m THEN call.tr
                           ELSE IF call.bb.time = m THEN call.bb
                           ELSE call.br
    /\ call.fn = "get_min_transition_event_time" =>
         LET n == Len(call.ids)
             m == MinOf({ call.nte[call.ids[k]].time : k \in 1..n })
             last_k == CHOOSE k \in 1..n :
                        /\ call.nte[call.ids[k]].time = m
                        /\ \A l \in 1..n : call.nte[call.ids[l]].time = m => l <= k
         IN  m < Inf => call.ret = call.nte[call.ids[last_k]]
    /\ call.fn = "get_min_ball_ball_event_time" =>
         \A p \in Eligible :
             (/\ call.dtau[p] < Inf
              /\ \A q \in Eligible : call.dtau[p] <= call.dtau[q]
              /\ \A q \in Eligible : call.dtau[q] = call.dtau[p] => ~Before(q, p))
             => call.ret.agents = << call.ids[p[1]], call.ids[p[2]] >>
    /\ call.fn = "get_min_ball_rail_event_time" =>
         \A p \in EligibleRail :
             (/\ call.dtau[p] < Inf
              /\ \A q \in EligibleRail : call.dtau[p] <= call.dtau[q]
              /\ \A q \in EligibleRail : call.dtau[q] = call.dtau[p] => ~Before(q, p))
             => call.ret.agents = << call.ids[p[1]], call.rails[p[2]] >>

\* all three balls' transitions are due at time 1: the last ball's is
\* returned
C16_Witness ==
    /\ call.fn = "get_min_transition_event_time"
    /\ \A b \in SeqToSet(call.ids) : call.nte[b].time = 1
    /\ call.ret = sliding_rolling_transition("2", 1)

\* C17: the ball-ball source asks about each pair of distinct balls at most
\* once, and about exactly the pairs with a ball not at rest; the result's
\* time is the current time plus the least answer; when that is finite the
\* agents are the two balls of a pair with the least answer, in collection
\* order; otherwise the time is inf and the agents are the placeholders.
C17_BallBallSource ==
    call.fn = "get_min_ball_ball_event_time" =>
        LET asked == call.asked
            answers == { call.dtau[p] : p \in Eligible } \cup {Inf}
            m == MinOf(answers)
        IN  /\ \A a, b \in 1..Len(asked) :
                  a # b => (asked[a] # asked[b] /\ asked[a] # << asked[b][2], asked[b][1] >>)
            /\ SeqToSet(asked) = Eligible
            /\ \A p \in SeqToSet(asked) : p[1] # p[2]
            /\ call.ret.event_type = "BALL_BALL"
            /\ call.ret.time = (IF m = Inf THEN Inf ELSE call.now + m)
            /\ m < Inf =>
                  \E p \in Eligible :
                      /\ call.dtau[p] = m
                      /\ p[1] < p[2]
                      /\ call.ret.agents = << call.ids[p[1]], call.ids[p[2]] >>
            /\ m = Inf => call.ret.agents = << DummyBall, DummyBall >>

\* the cue ball rolls, the others rest: the pair at rest is not asked about,
\* the answer 0 for it is not seen, and the pair ("cue", "2") answers 1
C17_Witness ==
    /\ call.fn = "get_min_ball_ball_event_time"
    /\ call.s = [b \in SeqToSet(SelectBalls) |-> IF b = "cue" THEN rolling ELSE stationary]
    /\ call.now = 1
    /\ call.dtau[<<2, 3>>] = 0
    /\ call.dtau[<<1, 2>>] = Inf
    /\ call.dtau[<<1, 3>>] = 1
    /\ call.asked = << <<1, 2>>, <<1, 3>> >>
    /\ call.ret = ball_ball_collision("cue", "2", 2)

(* --------------------- Ruleset: claims, continued ---------------------- *)

\* C18 as stated: an advance on a ShotInfo with game_over false and
\* turn_over true that aborts in next_shot_constraints or in cueball leaves
\* turn_number, shot_number, active_idx and shot_constraints as they were,
\* and active_idx = turn_number mod n if it held before.
C18_AdvanceAllOrNothing ==
    [][(/\ nsc_calls' = nsc_calls + 1
        /\ ~last'.ok
        /\ shot_info'.turn_over
        /\ ~shot_info'.game_over)
       => (Progress' = Progress /\ (ActiveIdxOk => ActiveIdxOk'))]_vars

\* C19 as stated: a sequence of player_order() consumed to its end, with
\* turn-ending shots advanced past in between, has yielded every roster
\* player exactly once.
C19_OrderUnderAdvance ==
    (gen.live /\ gen.done) =>
        /\ Len(gen.out) = Len(players)
        /\ SeqToSet(gen.out) = SeqToSet(players)
        /\ \A i, j \in 1..Len(gen.out) : i # j => gen.out[i] # gen.out[j]

\* C20 as stated: on a non-empty ball collection, whatever the
\* ShotConstraints, what cueball returns is a key of the collection.
C20_CueballInBalls ==
    (call.fn = "cueball" /\ Len(call.balls) > 0 /\ call.ret # Raise) =>
        call.ret \in SeqToSet(call.balls)

\* C21: in every state reachable from construction by the Ruleset's
\* operations, 0 <= turn_number <= shot_number; that covers the states an
\* advance leaves when it aborts after its counters were raised.
C21_TurnsWithinShots ==
    /\ 0 <= turn_number
    /\ turn_number <= shot_number

\* every counted shot ended the turn, and the last advance aborted after
\* its counters were raised
C21_Witness ==
    /\ constructed
    /\ shot_number >= 2
    /\ turn_number = shot_number
    /\ nsc_calls = shot_number
    /\ ~last.ok
====
